---- MODULE Spec2Model ----
(***************************************************************************)
(* Model of the sub-array crate (src/src/lib.rs): the trait SubArray with  *)
(* its three implementations ([T; M], [T], &mut T), the windows they       *)
(* return, and the borrows those windows hold on the source container.     *)
(***************************************************************************)
EXTENDS Integers, Sequences, FiniteSets

\* ---------------------------------------------------------------- bounds
\* Longest source container explored.
MaxLen == 3
\* Width of usize in bits; usize arithmetic is modulo 2^UsizeBits.  The
\* width is kept just wide enough to hold MaxLen, so that sources as long
\* as usize allows, and sums that overflow next to valid ones, are explored.
UsizeBits == 2
\* Deepest nesting of `&mut` in the receiver type (&mut &mut [T; M] is 2).
MaxDepth == 2
\* Most windows alive at one time.
MaxViews == 2

\* ---------------------------------------------------------- basic types
\* The element type T (type Item): the trait bounds it in no way, so any
\* type with two distinguishable values stands for it.
Item == {"a", "b"}

USIZE_MAX == (2 ^ UsizeBits) - 1
usize == 0 .. USIZE_MAX

\* Result of an expression that may panic; why names the panic.
Err(why) == [ok |-> FALSE, why |-> why]
Ok(x) == [ok |-> TRUE, val |-> x]

\* The receiver types that implement SubArray: [T; M], [T], and `&mut`
\* nested depth times around a Sized implementor (the impl for &mut T has
\* the implicit bound T: Sized, which excludes the slice type [T]).
Implementors ==
    {[base |-> "array", depth |-> d] : d \in 0 .. MaxDepth}
        \cup {[base |-> "slice", depth |-> 0]}

\* All source contents of length 0 .. MaxLen.
Sources == UNION {[1 .. n -> Item] : n \in 0 .. MaxLen}

\* ------------------------------------------------- the pure computation
\* `offset + N` on usize: panics on overflow when the build has overflow
\* checks (debug profile), wraps modulo 2^UsizeBits otherwise (release).
offset_plus_N(offset, N, overflow_checks) ==
    IF offset + N > USIZE_MAX
    THEN IF overflow_checks THEN Err("add overflow") ELSE Ok((offset + N) % (USIZE_MAX + 1))
    ELSE Ok(offset + N)

\* slice_index that checks the order of the bounds but not the end against
\* the length (an unchecked access).
slice_index_unchecked_end(len, start, end) ==
    IF start > end THEN Err("index order")
    ELSE Ok([start |-> start, len |-> end - start])

\* slice_index that rejects an empty range.
slice_index_rejects_empty(len, start, end) ==
    IF start >= end THEN Err("index order")
    ELSE IF end > len THEN Err("index end")
    ELSE Ok([start |-> start, len |-> end - start])

\* Range indexing `self[start..end]` of a sequence of length len: panics
\* when start > end or end > len, otherwise the sub-slice that starts at
\* position start of self and has end - start elements.
slice_index(len, start, end) ==
    IF start > end THEN Err("index order")
    ELSE IF end > len THEN Err("index end")
    ELSE Ok([start |-> start, len |-> end - start])

\* `.try_into().unwrap()` from a slice to an array reference of length N:
\* panics when the slice's length is not N, otherwise the same elements
\* typed as [T; N].
try_into_unwrap(slice, N) ==
    IF ~slice.ok THEN slice
    ELSE IF slice.val.len # N THEN Err("unwrap")
    ELSE Ok([start |-> slice.val.start, len |-> N])

\* array_sub_array_ref with the range offset..N in place of
\* offset..(offset + N).
array_sub_array_ref_end_is_N(len, N, offset, overflow_checks) ==
    try_into_unwrap(slice_index(len, offset, N), N)

\* array_sub_array_ref that checks the end of the range against the length
\* and nothing else before it forms the window.
array_sub_array_ref_end_only(len, N, offset, overflow_checks) ==
    LET end == offset_plus_N(offset, N, overflow_checks)
    IN  IF ~end.ok THEN end
        ELSE IF end.val > len THEN Err("index end")
        ELSE Ok([start |-> offset, len |-> N])

\* impl SubArray for [T; M], with M = len.
array_sub_array_ref(len, N, offset, overflow_checks) ==
    LET end == offset_plus_N(offset, N, overflow_checks)
    IN  IF ~end.ok THEN end
        ELSE try_into_unwrap(slice_index(len, offset, end.val), N)

\* array_sub_array_mut one position too far: self[offset + 1..offset + 1 + N].
array_sub_array_mut_off_by_one(len, N, offset, overflow_checks) ==
    LET end == offset_plus_N(offset, N, overflow_checks)
    IN  IF ~end.ok THEN end
        ELSE try_into_unwrap(slice_index(len, offset + 1, end.val + 1), N)

array_sub_array_mut(len, N, offset, overflow_checks) ==
    LET end == offset_plus_N(offset, N, overflow_checks)
    IN  IF ~end.ok THEN end
        ELSE try_into_unwrap(slice_index(len, offset, end.val), N)

\* impl SubArray for [T], len being the slice's run-time length.
\* slice_sub_array_ref that takes the first N elements: self[..N].
slice_sub_array_ref_from_zero(len, N, offset, overflow_checks) ==
    try_into_unwrap(slice_index(len, 0, N), N)

slice_sub_array_ref(len, N, offset, overflow_checks) ==
    LET end == offset_plus_N(offset, N, overflow_checks)
    IN  IF ~end.ok THEN end
        ELSE try_into_unwrap(slice_index(len, offset, end.val), N)

\* slice_sub_array_mut that takes the first N elements: (&mut self[..N]).
slice_sub_array_mut_from_zero(len, N, offset, overflow_checks) ==
    try_into_unwrap(slice_index(len, 0, N), N)

slice_sub_array_mut(len, N, offset, overflow_checks) ==
    LET end == offset_plus_N(offset, N, overflow_checks)
    IN  IF ~end.ok THEN end
        ELSE try_into_unwrap(slice_index(len, offset, end.val), N)

\* `*self` for a receiver of type &mut T: the T it points to.
deref(T) == [T EXCEPT !.depth = @ - 1]

RECURSIVE sub_array_ref(_, _, _, _, _)
RECURSIVE sub_array_mut(_, _, _, _, _)

\* impl SubArray for &mut T: (**self).sub_array_ref(offset).
refmut_sub_array_ref(T, len, N, offset, overflow_checks) ==
    sub_array_ref(deref(T), len, N, offset, overflow_checks)

\* The forwarding of sub_array_mut with the offset dropped:
\* (**self).sub_array_mut(0).
refmut_sub_array_mut_no_offset(T, len, N, offset, overflow_checks) ==
    sub_array_mut(deref(T), len, N, 0, overflow_checks)

\* impl SubArray for &mut T: (**self).sub_array_mut(offset).
refmut_sub_array_mut(T, len, N, offset, overflow_checks) ==
    sub_array_mut(deref(T), len, N, offset, overflow_checks)

\* The trait method as resolved for the receiver type T.
sub_array_ref(T, len, N, offset, overflow_checks) ==
    IF T.depth > 0 THEN refmut_sub_array_ref(T, len, N, offset, overflow_checks)
    ELSE IF T.base = "array"
         THEN array_sub_array_ref(len, N, offset, overflow_checks)
         ELSE slice_sub_array_ref(len, N, offset, overflow_checks)

sub_array_mut(T, len, N, offset, overflow_checks) ==
    IF T.depth > 0 THEN refmut_sub_array_mut(T, len, N, offset, overflow_checks)
    ELSE IF T.base = "array"
         THEN array_sub_array_mut(len, N, offset, overflow_checks)
         ELSE slice_sub_array_mut(len, N, offset, overflow_checks)

\* ------------------------------------------------------------- the state
VARIABLES
    SelfType,         \* the type of the receiver the program calls through
    overflow_checks,  \* whether the build checks integer overflow
    storage,          \* the source container's elements
    views,            \* the windows that are alive
    fault             \* the call that panicked, or NoFault

vars == <<SelfType, overflow_checks, storage, views, fault>>

NoFault == [op |-> "none"]
Unwritten == "-"

\* A window as the caller holds it: how it was asked for (mutable, N,
\* offset), the region the call returned (win), the source's contents when
\* it was created (snap) and, per index of the window, the value last
\* written through it (wrote).
View(mutable, N, offset, win, snap) ==
    [mutable |-> mutable, N |-> N, offset |-> offset, win |-> win,
     snap |-> snap, wrote |-> [i \in 0 .. win.len - 1 |-> Unwritten]]

\* `&self`: a shared borrow of the source can be taken while no mutable
\* window is alive.
borrow_shared_ok == \A v \in views : ~v.mutable

\* sub_array_mut taking no more than a shared borrow.
borrow_mut_as_shared == \A v \in views : ~v.mutable

\* `&mut self`: an exclusive borrow of the source can be taken only while
\* no window at all is alive.
borrow_mut_ok == views = {}

Init ==
    /\ SelfType \in Implementors
    /\ overflow_checks \in BOOLEAN
    /\ storage \in Sources
    /\ views = {}
    /\ fault = NoFault

\* What a call does to the caller's state: a returned window is alive from
\* then on; a panic unwinds the caller, which drops the windows it held.
Returned(op, N, offset, res) ==
    IF res.ok
    THEN /\ views' = views \cup {View(op = "mut", N, offset, res.val, storage)}
         /\ fault' = fault
    ELSE /\ views' = {}
         /\ fault' = [op |-> op, N |-> N, offset |-> offset, why |-> res.why,
                      pre |-> storage]

\* A sub_array_ref that resets the elements of the source it was asked
\* for (as a take or a fill of the window would).
CallRef_clobbers(N, offset) ==
    /\ fault = NoFault
    /\ Cardinality(views) < MaxViews
    /\ borrow_shared_ok
    /\ Returned("ref", N, offset,
                sub_array_ref(SelfType, Len(storage), N, offset, overflow_checks))
    /\ storage' = [p \in DOMAIN storage |->
                     IF p - 1 >= offset /\ p - 1 < offset + N
                     THEN "a" ELSE storage[p]]
    /\ UNCHANGED <<SelfType, overflow_checks>>

\* x.sub_array_ref::<N>(offset)
CallRef(N, offset) ==
    /\ fault = NoFault
    /\ Cardinality(views) < MaxViews
    /\ borrow_shared_ok
    /\ Returned("ref", N, offset,
                sub_array_ref(SelfType, Len(storage), N, offset, overflow_checks))
    /\ UNCHANGED <<SelfType, overflow_checks, storage>>

\* x.sub_array_mut::<N>(offset)
CallMut(N, offset) ==
    /\ fault = NoFault
    /\ Cardinality(views) < MaxViews
    /\ borrow_mut_ok
    /\ Returned("mut", N, offset,
                sub_array_mut(SelfType, Len(storage), N, offset, overflow_checks))
    /\ UNCHANGED <<SelfType, overflow_checks, storage>>

\* `sub[i] = x` through a mutable window: element i of the window is the
\* source's element at the window's start + i.  Indexing [T; N] admits
\* i < N only, and a reference refers to memory of the source only.
Write(v, i, x) ==
    /\ fault = NoFault
    /\ v \in views
    /\ v.mutable
    /\ i < v.win.len
    /\ v.win.start + i + 1 \in DOMAIN storage
    /\ storage' = [storage EXCEPT ![v.win.start + i + 1] = x]
    /\ views' = (views \ {v}) \cup {[v EXCEPT !.wrote[i] = x]}
    /\ UNCHANGED <<SelfType, overflow_checks, fault>>

\* A window goes out of scope (a temporary at the end of its statement, a
\* variable at the end of its block).
Release(v) ==
    /\ fault = NoFault
    /\ v \in views
    /\ views' = views \ {v}
    /\ UNCHANGED <<SelfType, overflow_checks, storage, fault>>

Next ==
    \/ \E N \in usize, offset \in usize : CallRef(N, offset)
    \/ \E N \in usize, offset \in usize : CallMut(N, offset)
    \/ \E v \in views, i \in 0 .. MaxLen, x \in Item : Write(v, i, x)
    \/ \E v \in views : Release(v)

Spec == Init /\ [][Next]_vars

\* ------------------------------------------------------------ the claims
\* Element i of window v as the caller reads it: the window aliases the
\* source from its start on.
window_get(v, i) == storage[v.win.start + i + 1]

\* Two regions of the source are the same region or share a position.
Overlaps(a, b) ==
    \/ a = b
    \/ (a.start < b.start + b.len /\ b.start < a.start + a.len)

\* C1: a call with offset + N <= L does not panic (sub_array_ref and
\* sub_array_mut alike), and the window it returns has exactly N elements,
\* the i-th of which is the source's element at position offset + i.
C1_WindowIsSourceRegion ==
    /\ fault # NoFault => fault.offset + fault.N > Len(storage)
    /\ \A v \in views :
         v.offset + v.N <= Len(storage) =>
            /\ v.win.len = v.N
            /\ \A i \in 0 .. v.N - 1 :
                 /\ v.win.start + i = v.offset + i
                 /\ window_get(v, i) = storage[v.offset + i + 1]

\* A window of two different elements from the middle to the end of a
\* source of three is alive.
C1_Witness ==
    /\ Len(storage) = 3
    /\ \E v \in views :
         /\ v.offset = 1 /\ v.N = 2
         /\ window_get(v, 0) # window_get(v, 1)
         /\ window_get(v, 0) = storage[2]

\* C2: no call with offset + N > L returns a window (so every such call
\* ends in the panic), and no window has a length other than its N or
\* reaches past the end of the source.
C2_OutOfBoundsFaults ==
    \A v \in views :
       /\ ~(v.offset + v.N > Len(storage))
       /\ v.win.len = v.N
       /\ v.win.start + v.win.len <= Len(storage)

\* A call for an empty window past the end of the source has panicked.
C2_Witness ==
    /\ fault # NoFault
    /\ fault.N = 0
    /\ fault.offset > Len(storage)

\* C4: a call for a window of length 0 at an offset <= L never panics,
\* and its window is empty.
C4_EmptyWindow ==
    /\ (fault # NoFault /\ fault.N = 0) => fault.offset > Len(storage)
    /\ \A v \in views : v.N = 0 => v.win.len = 0

\* An empty window at the very end of a non-empty source is alive.
C4_Witness ==
    /\ Len(storage) > 0
    /\ \E v \in views : v.N = 0 /\ v.offset = Len(storage) /\ v.win.len = 0

\* C3: a value written to index i of a mutable window asked for at offset
\* is what position offset + i of the source holds afterwards.
C3_WriteReachesSource ==
    \A v \in views :
       v.mutable =>
          \A i \in DOMAIN v.wrote :
             v.wrote[i] # Unwritten =>
                /\ v.offset + i + 1 \in DOMAIN storage
                /\ storage[v.offset + i + 1] = v.wrote[i]

\* A write through a mutable window has changed the source's last element.
C3_Witness ==
    /\ Len(storage) = 3
    /\ \E v \in views :
         /\ v.mutable /\ v.offset = 2 /\ v.N = 1
         /\ v.wrote[0] # Unwritten
         /\ storage[3] = v.wrote[0]
         /\ storage[3] # v.snap[3]

\* The result of the other of the two implementations (on [T; M] for a
\* slice, on [T] for an array) for the same data and arguments.
OtherImpl(mutable, N, offset) ==
    IF SelfType.base = "slice"
    THEN IF mutable
         THEN array_sub_array_mut(Len(storage), N, offset, overflow_checks)
         ELSE array_sub_array_ref(Len(storage), N, offset, overflow_checks)
    ELSE IF mutable
         THEN slice_sub_array_mut(Len(storage), N, offset, overflow_checks)
         ELSE slice_sub_array_ref(Len(storage), N, offset, overflow_checks)

\* C5: called on a slice or on an array, sub_array_ref and sub_array_mut
\* panic exactly when the other implementation panics on the same data and
\* arguments, and otherwise return the region the other one returns.
C5_SliceAgreesWithArray ==
    SelfType.depth = 0 =>
       /\ \A v \in views : OtherImpl(v.mutable, v.N, v.offset) = Ok(v.win)
       /\ fault # NoFault =>
             ~OtherImpl(fault.op = "mut", fault.N, fault.offset).ok

\* A slice has returned a window of two elements at offset 1.
C5_Witness ==
    /\ SelfType.base = "slice"
    /\ \E v \in views : ~v.mutable /\ v.N = 2 /\ v.offset = 1

\* The result of the implementation named by the type T.
ImplOf(T, mutable, N, offset) ==
    IF mutable
    THEN sub_array_mut(T, Len(storage), N, offset, overflow_checks)
    ELSE sub_array_ref(T, Len(storage), N, offset, overflow_checks)

\* C6: called through `&mut` (nested to any depth), both methods panic
\* exactly when the call on the wrapped container and on the innermost
\* container panics, otherwise return the region those return, and a write
\* through the forwarded mutable window changes the wrapped container.
C6_RefMutPassThrough ==
    SelfType.depth > 0 =>
       LET wrapped == deref(SelfType)
           inner == [SelfType EXCEPT !.depth = 0]
       IN  /\ \A v \in views :
                /\ ImplOf(wrapped, v.mutable, v.N, v.offset) = Ok(v.win)
                /\ ImplOf(inner, v.mutable, v.N, v.offset) = Ok(v.win)
                /\ \A i \in DOMAIN v.wrote :
                     v.wrote[i] # Unwritten
                        => storage[v.offset + i + 1] = v.wrote[i]
           /\ fault # NoFault =>
                /\ ~ImplOf(wrapped, fault.op = "mut", fault.N, fault.offset).ok
                /\ ~ImplOf(inner, fault.op = "mut", fault.N, fault.offset).ok

\* A window obtained through `&mut &mut` has been written through.
C6_Witness ==
    /\ SelfType.depth = 2
    /\ \E v \in views :
         /\ v.mutable /\ v.offset = 1 /\ v.N = 2
         /\ v.wrote[1] # Unwritten
         /\ storage[3] # v.snap[3]

C8_AliasingExclusivity ==
    \A v \in views :
       v.mutable => \A u \in views \ {v} : ~Overlaps(u.win, v.win)

\* Two overlapping immutable windows are alive together.
C8_Witness ==
    \E u, v \in views :
       /\ u # v
       /\ ~u.mutable /\ ~v.mutable
       /\ u.N > 0 /\ v.N > 0
       /\ Overlaps(u.win, v.win)

\* C9: no call whose true sum offset + N exceeds usize returns a window:
\* with overflow checks the addition panics, without them the wrapped end
\* lies below offset and the range is rejected for its order.
C9_EndOverflowFaults ==
    /\ \A v \in views : v.offset + v.N <= USIZE_MAX
    /\ (fault # NoFault /\ fault.offset + fault.N > USIZE_MAX) =>
          /\ overflow_checks => fault.why = "add overflow"
          /\ ~overflow_checks =>
                /\ (fault.offset + fault.N) % (USIZE_MAX + 1) < fault.offset
                /\ fault.why = "index order"

\* Without overflow checks, a call whose end wrapped to a position inside
\* the source has panicked.
C9_Witness ==
    /\ ~overflow_checks
    /\ fault # NoFault
    /\ fault.offset + fault.N > USIZE_MAX
    /\ fault.offset <= Len(storage)
    /\ (fault.offset + fault.N) % (USIZE_MAX + 1) <= Len(storage)

\* C10: while a mutable window asked for at offset with length N is alive,
\* the source keeps its length, every position outside [offset, offset + N)
\* holds what it held when the window was created, and every position
\* inside holds what was last written to it through the window (what it
\* held before, if nothing was).
C10_WritesConfined ==
    \A v \in views :
       v.mutable =>
          /\ Len(storage) = Len(v.snap)
          /\ \A p \in DOMAIN storage :
               IF p - 1 >= v.offset /\ p - 1 < v.offset + v.N
                  /\ p - 1 - v.offset \in DOMAIN v.wrote
                  /\ v.wrote[p - 1 - v.offset] # Unwritten
               THEN storage[p] = v.wrote[p - 1 - v.offset]
               ELSE storage[p] = v.snap[p]

\* Both elements of a window over the first two of three elements have
\* been rewritten, and the element after the window is as it was.
C10_Witness ==
    /\ Len(storage) = 3
    /\ \E v \in views :
         /\ v.mutable /\ v.offset = 0 /\ v.N = 2
         /\ v.wrote[0] # Unwritten /\ v.wrote[1] # Unwritten
         /\ storage[1] # v.snap[1] /\ storage[2] # v.snap[2]
         /\ storage[3] = v.snap[3]

====
